---- MODULE Spec2Model ----
(***************************************************************************)
(* Model of the scc-trait crate: Tarjan's strongly connected components    *)
(* over a caller-supplied graph (src/src/tarjan.rs) and the queries of the *)
(* Components structure it returns (src/src/lib.rs).                       *)
(*                                                                         *)
(* Vec<T> values that are indexed by a component index are functions over  *)
(* 0..len-1, as in the source; the stacks and the vertex list of a         *)
(* component, which are pushed, popped and iterated only, are sequences    *)
(* whose last element is the top.  A HashSet is a set; iterating over it   *)
(* takes its elements in an order the caller does not know.  Each set of   *)
(* graph successors is iterated once by the traversal, its next element is *)
(* any of those left; the sets of a Components are iterated again and     *)
(* again, each in an order of its own (see Iterations).                    *)
(***************************************************************************)
EXTENDS Integers, FiniteSets, Sequences, TLC

\* Number of vertex identifiers the graph may use.
NumVertices == 4
\* Largest number of edges of the graph.
MaxEdges == 4
\* The call stack holds this many frames more than there are vertices.
ExtraFrames == 2

Vertices == 0 .. (NumVertices - 1)

AllEdges == Vertices \X Vertices

RECURSIVE EdgeSets(_)
EdgeSets(k) ==
    IF k = 0 THEN {{}}
    ELSE LET S == EdgeSets(k - 1)
         IN  S \cup {s \cup {e} : s \in S, e \in AllEdges}

VARIABLES
    roots,                 \* what Scc::vertices() yields, in order
    edges,                 \* the graph's edges, read by Scc::successors()
    pc,                    \* where the caller is
    todo,                  \* scc: vertices of the for loop still to come
    map,                   \* scc: HashMap<Vertex, Data>
    stack,                 \* scc: Vec<Vertex>, the open vertices
    components,            \* scc: Vec<Vec<Vertex>>, the finished components
    calls,                 \* the strong_connect frames, innermost last
    list,                  \* Components.list
    vertex_to_component,   \* Components.vertex_to_component
    successors,            \* Components.successors
    depth,                 \* Components::depths: the depth vector
    work,                  \* Components::depths: the stack of (i, new_depth)
    predecessors,          \* the argument of the free function depths
    fdepth,                \* free function depths: the depth vector
    fwork,                 \* free function depths: the stack of (i, new_depth)
    ordered_components,    \* order_by_depth: its result
    iteration,             \* the order in which each HashSet iterated so far iterates
    arg,                   \* direct_successors: the index i it was called with
    result,                \* direct_successors: the working set
    rcalls                 \* the remove_indirect_successors frames, innermost last

vars == <<roots, edges, pc, todo, map, stack, components, calls, list,
          vertex_to_component, successors, depth, work, predecessors, fdepth,
          fwork, ordered_components, iteration, arg, result, rcalls>>

sccVars == <<todo, map, stack, components, calls>>
structVars == <<list, vertex_to_component, successors>>
depthVars == <<depth, work, predecessors, fdepth, fwork, ordered_components>>
queryVars == <<depthVars, iteration>>
directVars == <<arg, result, rcalls>>

----------------------------------------------------------------------------
\* Helpers

Min(a, b) == IF a < b THEN a ELSE b

VecLen(f) == Cardinality(DOMAIN f)

VecPush(f, x) == f @@ (VecLen(f) :> x)

Pop(s) == SubSeq(s, 1, Len(s) - 1)

Top(s) == s[Len(s)]

\* The sequences that enumerate the set S, each element once.
RECURSIVE Orders(_)
Orders(S) ==
    IF S = {} THEN {<<>>}
    ELSE UNION {{<<x>> \o s : s \in Orders(S \ {x})} : x \in S}

Range(s) == {s[n] : n \in DOMAIN s}

\* Scc::successors(v)
Successors(v) == {w \in Vertices : <<v, w>> \in edges}

\* The vertices reached from those of S along the edges E, S included.
RECURSIVE Closure(_, _)
Closure(S, E) ==
    LET T == S \cup {e[2] : e \in {d \in E : d[1] \in S}}
    IN  IF T = S THEN S ELSE Closure(T, E)

----------------------------------------------------------------------------
\* tarjan.rs

Data(index) ==
    [index |-> index, lowlink |-> index, on_stack |-> TRUE, component |-> 0]

\* strong_connect, lines 57-70: number v (the numbers stay far below 2^32, the
\* range of the u32 they are cast to), push it, record it, and start the loop
\* over its successors in a frame on top of the frames cs.
Enter(v, cs) ==
    /\ stack' = Append(stack, v)
    /\ map' = (v :> Data(VecLen(map))) @@ map
    /\ calls' = Append(cs, [v |-> v, rem |-> Successors(v)])

\* scc, lines 18-22: the next vertex of graph.vertices() is already in the map.
SccSkip ==
    /\ pc = "scc"
    /\ calls = <<>>
    /\ todo # <<>>
    /\ Head(todo) \in DOMAIN map
    /\ todo' = Tail(todo)
    /\ UNCHANGED <<roots, edges, pc, map, stack, components, calls>>
    /\ UNCHANGED <<structVars, queryVars, directVars>>

\* scc, lines 18-22: the next vertex of graph.vertices() is new.
SccVisit ==
    /\ pc = "scc"
    /\ calls = <<>>
    /\ todo # <<>>
    /\ Head(todo) \notin DOMAIN map
    /\ todo' = Tail(todo)
    /\ Enter(Head(todo), calls)
    /\ UNCHANGED <<roots, edges, pc, components>>
    /\ UNCHANGED <<structVars, queryVars, directVars>>

\* Line 83 without the update: an edge to a vertex on the stack is ignored.
OnStackLowlink_Ignored(v_lowlink, w_data) == v_lowlink

\* strong_connect, line 83: w is on the stack.
OnStackLowlink(v_lowlink, w_data) == Min(v_lowlink, w_data.index)

\* strong_connect, lines 70-93: one successor w of v that is already visited.
Visited ==
    /\ pc = "scc"
    /\ calls # <<>>
    /\ LET f == Top(calls)
       IN \E w \in f.rem :
            /\ w \in DOMAIN map
            /\ calls' = [calls EXCEPT ![Len(calls)].rem = f.rem \ {w}]
            /\ map' = IF map[w].on_stack
                      THEN [map EXCEPT ![f.v].lowlink =
                                OnStackLowlink(map[f.v].lowlink, map[w])]
                      ELSE map
    /\ UNCHANGED <<roots, edges, pc, todo, stack, components>>
    /\ UNCHANGED <<structVars, queryVars, directVars>>

\* strong_connect, lines 70-74: one successor w of v that is new; recurse.
Recurse ==
    /\ pc = "scc"
    /\ calls # <<>>
    /\ LET f == Top(calls)
       IN \E w \in f.rem :
            /\ w \notin DOMAIN map
            /\ Enter(w, [calls EXCEPT ![Len(calls)].rem = f.rem \ {w}])
    /\ UNCHANGED <<roots, edges, pc, todo, components>>
    /\ UNCHANGED <<structVars, queryVars, directVars>>

\* Line 75 without the min: the lowlink of the callee replaces that of v.
RecursedLowlink_Overwrite(v_lowlink, w_lowlink) == w_lowlink

\* strong_connect, line 75: w was new and the call on it returned w_lowlink.
RecursedLowlink(v_lowlink, w_lowlink) == Min(v_lowlink, w_lowlink)

\* Line 98 with a test that always succeeds.
IsRoot_Always(data) == data.lowlink >= 0

\* strong_connect, line 98
IsRoot(data) == data.lowlink = data.index

\* strong_connect, lines 102-114: the position in the stack down to which the
\* loop pops, the position of v.
PopTo(s, v) == CHOOSE k \in 1 .. Len(s) : s[k] = v /\ \A m \in (k + 1) .. Len(s) : s[m] # v

\* Lines 102-114 with the break taken after the first vertex.
Popped_TopOnly(s, v) == <<s[Len(s)]>>

\* strong_connect, lines 100-114: the vertices popped, in pop order.
Popped(s, v) ==
    LET k == PopTo(s, v)
    IN  [n \in 1 .. (Len(s) - k + 1) |-> s[Len(s) - n + 1]]

\* strong_connect, lines 95-120: all successors of v are done; close v's
\* component if v is a root, and return v's lowlink to the caller (line 75).
Return ==
    /\ pc = "scc"
    /\ calls # <<>>
    /\ LET f == Top(calls)
           lowlink == map[f.v].lowlink
           root == IsRoot(map[f.v])
           component == Popped(stack, f.v)
           closed == [x \in DOMAIN map |->
                        IF x \in Range(component)
                        THEN [map[x] EXCEPT !.on_stack = FALSE,
                                            !.component = VecLen(components)]
                        ELSE map[x]]
           map1 == IF root THEN closed ELSE map
       IN /\ f.rem = {}
          /\ stack' = IF root THEN SubSeq(stack, 1, PopTo(stack, f.v) - 1) ELSE stack
          /\ components' = IF root THEN VecPush(components, component) ELSE components
          /\ calls' = Pop(calls)
          /\ map' = IF Len(calls) > 1
                    THEN LET u == calls[Len(calls) - 1].v
                         IN  [map1 EXCEPT ![u].lowlink =
                                 RecursedLowlink(map1[u].lowlink, lowlink)]
                    ELSE map1
    /\ UNCHANGED <<roots, edges, pc, todo>>
    /\ UNCHANGED <<structVars, queryVars, directVars>>

\* scc, lines 24-27
VertexToComponent(m) == [v \in DOMAIN m |-> m[v].component]

\* Lines 29-41 with the component itself left out of its successors.
ComponentSuccessors_NoSelf(cs, v2c) ==
    [i \in DOMAIN cs |->
        {v2c[sc] : sc \in UNION {Successors(cs[i][n]) : n \in DOMAIN cs[i]}} \ {i}]

\* scc, lines 29-41
ComponentSuccessors(cs, v2c) ==
    [i \in DOMAIN cs |->
        {v2c[sc] : sc \in UNION {Successors(cs[i][n]) : n \in DOMAIN cs[i]}}]

\* scc, lines 24-41: the traversal is over; build the fields of the
\* Components.  The map is consumed (into_iter) and the components are moved
\* into the result.
Build ==
    /\ pc = "scc"
    /\ calls = <<>>
    /\ todo = <<>>
    /\ pc' = "built"
    /\ list' = components
    /\ vertex_to_component' = VertexToComponent(map)
    /\ successors' = ComponentSuccessors(components, VertexToComponent(map))
    /\ map' = <<>>
    /\ stack' = <<>>
    /\ components' = <<>>
    /\ UNCHANGED <<roots, edges, todo, calls, queryVars, directVars>>

\* scc, lines 43-47, and strongly_connected_components, lines 77-79: the
\* Components is returned.  It holds no reference to the graph, whose borrow
\* ends here: the queries below run on the Components alone.
SccReturn ==
    /\ pc = "built"
    /\ pc' = "returned"
    /\ roots' = <<>>
    /\ edges' = {}
    /\ UNCHANGED <<sccVars, structVars, queryVars, directVars>>

----------------------------------------------------------------------------
\* lib.rs: the queries of Components

\* Components::len
ComponentsLen == VecLen(list)

\* Components::successors(i) is Some(iterator over successors[i]) for these i,
\* and None for the others.
InRange(i) == i \in DOMAIN successors

\* Components::is_cyclic(i), for i in range (out of range the unwrap panics).
is_cyclic(i) == i \in successors[i]

\* Components::predecessors
Predecessors ==
    [j \in DOMAIN list |-> {i \in DOMAIN successors : j \in successors[i]}]

\* depths, lines 161-162 and 233-234: every index with depth 0, last index on top.
InitialWork(n) == [k \in 1 .. n |-> <<k - 1, 0>>]

\* Lines 165 and 237 without the test for a depth of 0.
Relaxes_Greater(d, i, new_depth) == new_depth > d[i]

\* depths, lines 165 and 237
Relaxes(d, i, new_depth) == d[i] = 0 \/ new_depth > d[i]

\* HashSet::iter: a set iterates in an order of its own, unknown to the caller
\* and the same each time (no set is modified after its construction).  The
\* order of the set `name`[i] is settled when the set is first iterated.
Iterations(name, i, S) ==
    IF <<name, i>> \in DOMAIN iteration
    THEN {iteration[<<name, i>>]}
    ELSE Orders(S)

Iterated(name, i, o) == (<<name, i>> :> o) @@ iteration

\* depths, lines 168 and 240
Pushed(c, i) == c # i

\* depths, lines 167-171 and 239-243: what the loop pushes when it iterates
\* over the neighbours of i in the order o.
Pushes(o, i, new_depth) ==
    LET kept == SelectSeq(o, LAMBDA c : Pushed(c, i))
    IN  [k \in DOMAIN kept |-> <<kept[k], new_depth + 1>>]

\* Components::depths, lines 161-162
CallDepths ==
    /\ pc = "returned"
    /\ pc' = "depths"
    /\ depth' = [i \in DOMAIN list |-> 0]
    /\ work' = InitialWork(ComponentsLen)
    /\ UNCHANGED <<roots, edges, sccVars, structVars, directVars>>
    /\ UNCHANGED <<predecessors, fdepth, fwork, ordered_components, iteration>>

\* Components::depths, lines 164-173: one turn of the while loop.
DepthsStep ==
    /\ pc = "depths"
    /\ work # <<>>
    /\ LET i == Top(work)[1]
           new_depth == Top(work)[2]
       IN IF Relaxes(depth, i, new_depth)
          THEN /\ depth' = [depth EXCEPT ![i] = new_depth]
               /\ \E o \in Iterations("successors", i, successors[i]) :
                    /\ iteration' = Iterated("successors", i, o)
                    /\ work' = Pop(work) \o Pushes(o, i, new_depth)
          ELSE /\ work' = Pop(work)
               /\ UNCHANGED <<depth, iteration>>
    /\ UNCHANGED <<roots, edges, pc, sccVars, structVars, directVars>>
    /\ UNCHANGED <<predecessors, fdepth, fwork, ordered_components>>

\* Components::depths, line 175: the stack is empty, return the depths.
DepthsReturn ==
    /\ pc = "depths"
    /\ work = <<>>
    /\ pc' = "depths_done"
    /\ UNCHANGED <<roots, edges, sccVars, structVars, queryVars, directVars>>

\* Line 198 with the comparison of the keys reversed.
Insertions_Reversed(s, x, key) ==
    {SubSeq(s, 1, p) \o <<x>> \o SubSeq(s, p + 1, Len(s)) :
        p \in {q \in 0 .. Len(s) :
                  /\ \A k \in 1 .. q : key[s[k]] >= key[x]
                  /\ \A k \in (q + 1) .. Len(s) : key[x] >= key[s[k]]}}

\* sort_unstable_by_key, line 198: insertion of x into the sorted sequence s,
\* anywhere among the elements of equal key (the sort is not stable).
Insertions(s, x, key) ==
    {SubSeq(s, 1, p) \o <<x>> \o SubSeq(s, p + 1, Len(s)) :
        p \in {q \in 0 .. Len(s) :
                  /\ \A k \in 1 .. q : key[s[k]] <= key[x]
                  /\ \A k \in (q + 1) .. Len(s) : key[x] <= key[s[k]]}}

\* sort_unstable_by_key, line 198: the results of sorting 0..n-1 by key.
RECURSIVE SortUnstableByKey(_, _)
SortUnstableByKey(n, key) ==
    IF n = 0 THEN {<<>>}
    ELSE UNION {Insertions(s, n - 1, key) : s \in SortUnstableByKey(n - 1, key)}

\* order_by_depth, lines 196-199, once its call of depths has returned.
OrderByDepth ==
    /\ pc = "depths_done"
    /\ pc' = "ordered"
    /\ \E o \in SortUnstableByKey(ComponentsLen, depth) :
          ordered_components' = [k \in 0 .. (Len(o) - 1) |-> o[k + 1]]
    /\ UNCHANGED <<roots, edges, sccVars, structVars, directVars>>
    /\ UNCHANGED <<depth, work, predecessors, fdepth, fwork, iteration>>

\* the free function depths, lines 233-234, called on self.predecessors()
CallFreeDepths ==
    /\ pc = "depths_done"
    /\ pc' = "free"
    /\ predecessors' = Predecessors
    /\ fdepth' = [i \in DOMAIN Predecessors |-> 0]
    /\ fwork' = InitialWork(VecLen(Predecessors))
    /\ UNCHANGED <<roots, edges, sccVars, structVars, directVars>>
    /\ UNCHANGED <<depth, work, ordered_components, iteration>>

\* the free function depths, lines 236-245: one turn of the while loop.
FreeDepthsStep ==
    /\ pc = "free"
    /\ fwork # <<>>
    /\ LET i == Top(fwork)[1]
           new_depth == Top(fwork)[2]
       IN IF Relaxes(fdepth, i, new_depth)
          THEN /\ fdepth' = [fdepth EXCEPT ![i] = new_depth]
               /\ \E o \in Iterations("predecessors", i, predecessors[i]) :
                    /\ iteration' = Iterated("predecessors", i, o)
                    /\ fwork' = Pop(fwork) \o Pushes(o, i, new_depth)
          ELSE /\ fwork' = Pop(fwork)
               /\ UNCHANGED <<fdepth, iteration>>
    /\ UNCHANGED <<roots, edges, pc, sccVars, structVars, directVars>>
    /\ UNCHANGED <<depth, work, predecessors, ordered_components>>

\* the free function depths, line 247
FreeDepthsReturn ==
    /\ pc = "free"
    /\ fwork = <<>>
    /\ pc' = "free_done"
    /\ UNCHANGED <<roots, edges, sccVars, structVars, queryVars, directVars>>

\* direct_successors, line 147: i is out of range, the ? returns None.
DirectNone ==
    /\ pc = "returned"
    /\ \E i \in 0 .. ComponentsLen :
        /\ ~InRange(i)
        /\ arg' = i
    /\ pc' = "direct_none"
    /\ UNCHANGED <<roots, edges, sccVars, structVars, queryVars, result, rcalls>>

\* direct_successors, lines 147-149: i is in range; the frame of
\* direct_successors itself is the outermost one.
CallDirectSuccessors ==
    /\ pc = "returned"
    /\ \E i \in 0 .. ComponentsLen :
        /\ InRange(i)
        /\ arg' = i
        /\ result' = successors[i]
        /\ rcalls' = <<[i |-> i, taken |-> 0, outer |-> TRUE]>>
    /\ pc' = "direct"
    /\ UNCHANGED <<roots, edges, sccVars, structVars, queryVars>>

\* Lines 142 and 150 with a callee that does not loop.
Frame_NoLoop(j) == [i |-> j, taken |-> Cardinality(successors[j]), outer |-> FALSE]

\* lines 142 and 150: the frame of the call remove_indirect_successors(result, j)
Frame(j) == [i |-> j, taken |-> 0, outer |-> FALSE]

\* Line 141 run by the loop of direct_successors as well.
Removed_Always(r, j, outer) == r \ {j}

\* remove_indirect_successors, line 141; the loop of direct_successors, line
\* 149, removes nothing itself.
Removed(r, j, outer) == IF outer THEN r ELSE r \ {j}

\* lines 140 and 149: the loop of frame f has elements left.
LoopGoesOn(f) == f.taken < Cardinality(successors[f.i])

\* lines 142 and 150: the call stack has room for the frame of one more call.
\* A call that returns nests at most as many frames as there are components.
HasRoom == Len(rcalls) < NumVertices + ExtraFrames

\* lines 140-142 and 149-150: the loop takes the next j and calls
\* remove_indirect_successors(result, j).
DirectStep ==
    /\ pc = "direct"
    /\ rcalls # <<>>
    /\ HasRoom
    /\ LoopGoesOn(Top(rcalls))
    /\ LET f == Top(rcalls)
       IN \E o \in Iterations("successors", f.i, successors[f.i]) :
            LET j == o[f.taken + 1]
            IN  /\ iteration' = Iterated("successors", f.i, o)
                /\ result' = Removed(result, j, f.outer)
                /\ rcalls' = Append([rcalls EXCEPT ![Len(rcalls)].taken = f.taken + 1],
                                    Frame(j))
    /\ UNCHANGED <<roots, edges, pc, sccVars, structVars, depthVars, arg>>

\* lines 140-142: the call does not fit the call stack; the process aborts.
DirectOverflow ==
    /\ pc = "direct"
    /\ rcalls # <<>>
    /\ ~HasRoom
    /\ LoopGoesOn(Top(rcalls))
    /\ pc' = "overflow"
    /\ UNCHANGED <<roots, edges, sccVars, structVars, queryVars, directVars>>

\* lines 144 and 153: the loop of the innermost call is over; it returns, and
\* when it is direct_successors itself, with Some(result).
DirectReturn ==
    /\ pc = "direct"
    /\ rcalls # <<>>
    /\ ~LoopGoesOn(Top(rcalls))
    /\ rcalls' = Pop(rcalls)
    /\ pc' = IF Len(rcalls) = 1 THEN "direct_done" ELSE "direct"
    /\ UNCHANGED <<roots, edges, sccVars, structVars, queryVars, arg, result>>

----------------------------------------------------------------------------

\* The graphs: vertices() yields the first k vertex identifiers in order, as
\* the implementation for Vec<HashSet<usize>> does (lines 253-255), and the
\* others are found through edges only.  The vertex type is opaque to the
\* crate, so every other enumeration is one of these with the vertices
\* renamed.  Edges that leave a vertex the traversal cannot reach are never
\* read and are left out.
Init ==
    /\ roots \in {[n \in 1 .. k |-> n - 1] : k \in 0 .. NumVertices}
    /\ edges \in EdgeSets(MaxEdges)
    /\ \A e \in edges : e[1] \in Closure(Range(roots), edges)
    /\ pc = "scc"
    /\ todo = roots
    /\ map = <<>>
    /\ stack = <<>>
    /\ components = <<>>
    /\ calls = <<>>
    /\ list = <<>>
    /\ vertex_to_component = <<>>
    /\ successors = <<>>
    /\ depth = <<>>
    /\ work = <<>>
    /\ predecessors = <<>>
    /\ fdepth = <<>>
    /\ fwork = <<>>
    /\ ordered_components = <<>>
    /\ iteration = <<>>
    /\ arg = 0
    /\ result = {}
    /\ rcalls = <<>>

\* strongly_connected_components
Traversal ==
    \/ SccSkip
    \/ SccVisit
    \/ Visited
    \/ Recurse
    \/ Return
    \/ Build
    \/ SccReturn

\* strongly_connected_components, then depths or order_by_depth
Next ==
    \/ Traversal
    \/ CallDepths
    \/ DepthsStep
    \/ DepthsReturn
    \/ OrderByDepth

\* strongly_connected_components, then depths, then the free function depths
\* on predecessors()
NextFree ==
    \/ Traversal
    \/ CallDepths
    \/ DepthsStep
    \/ DepthsReturn
    \/ CallFreeDepths
    \/ FreeDepthsStep
    \/ FreeDepthsReturn

\* strongly_connected_components, then direct_successors
NextDirect ==
    \/ Traversal
    \/ DirectNone
    \/ CallDirectSuccessors
    \/ DirectStep
    \/ DirectOverflow
    \/ DirectReturn

Spec == Init /\ [][Next]_vars

SpecFree == Init /\ [][NextFree]_vars

SpecDirect == Init /\ [][NextDirect]_vars

\* The program is sequential and nothing suspends it: a loop or a call that can
\* take its next step takes it.
FairSpec == Spec /\ WF_vars(Next)

FairDirect == SpecDirect /\ WF_vars(NextDirect)

----------------------------------------------------------------------------
\* What the claims speak of

\* The vertices that vertices() yields or that are reachable from one of them.
Discovered == Closure(Range(roots), edges)

\* v reaches w along graph edges (every vertex reaches itself).
Reaches(v, w) == w \in Closure({v}, edges)

\* The vertices of component i.
Members(i) == Range(list[i])

\* The edges of the condensation graph.
CondensationEdges ==
    {e \in (DOMAIN successors) \X (DOMAIN successors) : e[2] \in successors[e[1]]}

\* The components reached from component i by one or more condensation edges.
ReachedFrom(i) == Closure(successors[i], CondensationEdges)

\* Component i is cyclic, or a component reachable from it is.
ReachesCyclic(i) == \E k \in {i} \cup ReachedFrom(i) : is_cyclic(k)

MaxOf(S) == CHOOSE x \in S : \A y \in S : y <= x

\* C1: once the components are built, two discovered vertices have the same
\* component index exactly when each is reachable from the other along graph
\* edges; in particular two vertices of different components never reach each
\* other in both directions.
C1_MutualReachability ==
    pc = "built" =>
        \A u \in DOMAIN vertex_to_component, v \in DOMAIN vertex_to_component :
            (vertex_to_component[u] = vertex_to_component[v])
                <=> (Reaches(u, v) /\ Reaches(v, u))

\* C1 witness: a built result with two vertices sharing a component and two
\* vertices of different components joined in one direction.
C1_Witness ==
    /\ pc = "built"
    /\ \E u \in DOMAIN vertex_to_component, v \in DOMAIN vertex_to_component :
          u # v /\ vertex_to_component[u] = vertex_to_component[v]
    /\ \E u \in DOMAIN vertex_to_component, v \in DOMAIN vertex_to_component :
          vertex_to_component[u] # vertex_to_component[v] /\ Reaches(u, v)

\* C2: the component lists partition the discovered vertices: every discovered
\* vertex is in exactly one list, at exactly one position, the lists hold
\* nothing else, and no list is empty.
C2_Partition ==
    pc = "built" =>
        /\ \A v \in Discovered :
              Cardinality({i \in DOMAIN list : v \in Members(i)}) = 1
        /\ UNION {Members(i) : i \in DOMAIN list} = Discovered
        /\ \A i \in DOMAIN list :
              /\ list[i] # <<>>
              /\ Cardinality(Members(i)) = Len(list[i])
        /\ DOMAIN list = 0 .. (ComponentsLen - 1)

\* C2 witness: a built result in which a vertex that vertices() does not yield
\* was discovered, with a component of several vertices and another component.
C2_Witness ==
    /\ pc = "built"
    /\ Discovered # Range(roots)
    /\ \E i \in DOMAIN list : Len(list[i]) > 1
    /\ ComponentsLen > 1

\* C3: a step of the traversal that appends a component finds every other
\* component reachable from it appended already, and in the Components built
\* every successor j of i other than i has j < i.
C3_ReverseTopological ==
    [][/\ VecLen(components') > VecLen(components) =>
            LET C == Range(components'[VecLen(components)])
            IN  \A v \in C : \A w \in Closure({v}, edges) \ C :
                    \E k \in DOMAIN components : w \in Range(components[k])
        /\ pc' = "built" =>
            \A i \in DOMAIN successors' : \A j \in successors'[i] : j # i => j < i
      ]_vars

\* C3 witness: a built result with a component that has two successors other
\* than itself.
C3_Witness ==
    /\ pc = "built"
    /\ \E i \in DOMAIN successors : Cardinality(successors[i] \ {i}) > 1

\* C4: for every component index i in range, is_cyclic(i) holds exactly when
\* the component has several vertices or its one vertex has an edge to itself.
C4_Cyclicity ==
    pc = "built" =>
        \A i \in DOMAIN list :
            is_cyclic(i) <=>
                \/ Len(list[i]) > 1
                \/ Len(list[i]) = 1 /\ <<list[i][1], list[i][1]>> \in edges

\* C4 witness: a built result with a cyclic component of several vertices, a
\* cyclic component of one vertex and a component that is not cyclic.
C4_Witness ==
    /\ pc = "built"
    /\ \E i \in DOMAIN list : Len(list[i]) > 1 /\ is_cyclic(i)
    /\ \E i \in DOMAIN list : Len(list[i]) = 1 /\ is_cyclic(i)
    /\ \E i \in DOMAIN list : ~is_cyclic(i)

\* C5 as stated: when depths returns, depths()[i] is 0 exactly when no
\* component has i in its successor set, and is otherwise 1 + the maximum of
\* depths()[p] over the p in predecessors()[i].
C5_Original ==
    pc = "depths_done" =>
        \A i \in DOMAIN depth :
            /\ depth[i] = 0 <=> Predecessors[i] = {}
            /\ Predecessors[i] # {} =>
                  depth[i] = 1 + MaxOf({depth[p] : p \in Predecessors[i]})

\* C5 amended: when depths returns, depths()[i] is 0 exactly when no component
\* other than i has i in its successor set, and is otherwise 1 + the maximum of
\* depths()[p] over the p in predecessors()[i] other than i.
C5_DepthLaw ==
    pc = "depths_done" =>
        \A i \in DOMAIN depth :
            /\ depth[i] = 0 <=> Predecessors[i] \ {i} = {}
            /\ Predecessors[i] \ {i} # {} =>
                  depth[i] = 1 + MaxOf({depth[p] : p \in Predecessors[i] \ {i}})

\* C5 witness: depths has returned on a structure with a cyclic component and
\* a component of depth 2.
C5_Witness ==
    /\ pc = "depths_done"
    /\ \E i \in DOMAIN depth : is_cyclic(i)
    /\ \E i \in DOMAIN depth : depth[i] = 2

\* The graph of scenario A, given as a Vec<HashSet<usize>> of length 3.
ScenarioA ==
    /\ roots = <<0, 1, 2>>
    /\ edges = {<<0, 1>>, <<1, 0>>, <<1, 2>>}

\* The Components of scenario A: the components {2} and {0, 1}, {2} without
\* successors and {0, 1} with itself and {2} as successors.
ComponentsA ==
    /\ DOMAIN list = {0, 1}
    /\ Members(0) = {2}
    /\ Members(1) = {0, 1}
    /\ successors = (0 :> {} @@ 1 :> {0, 1})

\* C6 as stated: scenario A yields exactly the components {0, 1} and {2}, and
\* depths gives {2} the depth 0 and {0, 1} the depth 1.
C6_Original ==
    /\ (pc = "built" /\ ScenarioA) => ComponentsA
    /\ (pc = "depths_done" /\ ComponentsA) => (depth[0] = 0 /\ depth[1] = 1)

\* C6 amended: scenario A yields exactly the components {0, 1} and {2}, and
\* depths gives {2} the depth 1 and {0, 1} the depth 0.
C6_ScenarioA ==
    /\ (pc = "built" /\ ScenarioA) => ComponentsA
    /\ (pc = "depths_done" /\ ComponentsA) => depth = (0 :> 1 @@ 1 :> 0)

\* C6 witness: depths has returned on the Components of scenario A.
C6_Witness == pc = "depths_done" /\ ComponentsA

\* C7: when neither i nor a component reachable from i is cyclic,
\* direct_successors(i) returns the successors j of i that no other successor
\* k of i reaches by one or more condensation edges.
C7_DirectSuccessors ==
    (pc = "direct_done" /\ ~ReachesCyclic(arg)) =>
        result = {j \in successors[arg] :
                     ~\E k \in successors[arg] \ {j} : j \in ReachedFrom(k)}

\* C7 witness: direct_successors has returned on the source of a diamond, with
\* its two successors as the result.
C7_Witness ==
    /\ pc = "direct_done"
    /\ ~ReachesCyclic(arg)
    /\ \E b \in result, c \in result :
          /\ b # c
          /\ successors[arg] = {b, c}
          /\ \E d \in DOMAIN successors : successors[b] = {d} /\ successors[c] = {d}

\* C8 as stated: on the predecessor sets of a Components without cyclic
\* component, the free function depths returns 0 where the predecessor set is
\* empty and 1 + the maximum over the predecessors elsewhere, and its result
\* is that of Components::depths.
C8_Claim ==
    (pc = "free_done" /\ \A k \in DOMAIN successors : ~is_cyclic(k)) =>
        /\ \A i \in DOMAIN fdepth :
              /\ predecessors[i] = {} => fdepth[i] = 0
              /\ predecessors[i] # {} =>
                    fdepth[i] = 1 + MaxOf({fdepth[p] : p \in predecessors[i]})
        /\ fdepth = depth

\* C9: the loop of depths comes to its end, and what order_by_depth returns
\* holds every component index once, in an order of non-decreasing depth.
C9_OrderByDepth ==
    /\ (pc = "depths") ~> (pc = "depths_done")
    /\ [](pc = "ordered" =>
            /\ DOMAIN ordered_components = 0 .. (ComponentsLen - 1)
            /\ \A i \in DOMAIN list :
                  Cardinality({k \in DOMAIN ordered_components :
                                  ordered_components[k] = i}) = 1
            /\ \A k \in DOMAIN ordered_components, m \in DOMAIN ordered_components :
                  k < m => depth[ordered_components[k]] <= depth[ordered_components[m]])

\* C9 witness: order_by_depth has returned on a structure with a cyclic
\* component, with components of different depths and two of the same depth.
C9_Witness ==
    /\ pc = "ordered"
    /\ \E i \in DOMAIN list : is_cyclic(i)
    /\ \E i \in DOMAIN depth, j \in DOMAIN depth : depth[i] # depth[j]
    /\ \E i \in DOMAIN depth, j \in DOMAIN depth : i # j /\ depth[i] = depth[j]

\* C10: direct_successors(i), i in range, returns exactly when neither i nor a
\* component reachable from i is cyclic; otherwise the calls of
\* remove_indirect_successors nest until the call stack is full, with an index
\* that is in the stack twice.
C10_DirectTermination ==
    /\ [](pc = "direct_done" => ~ReachesCyclic(arg))
    /\ (pc = "direct" /\ ~ReachesCyclic(arg)) ~> (pc = "direct_done")
    /\ (pc = "direct" /\ ReachesCyclic(arg)) ~> (pc = "overflow")
    /\ [](pc = "overflow" =>
            /\ ReachesCyclic(arg)
            /\ \E k \in DOMAIN rcalls, m \in DOMAIN rcalls :
                  k # m /\ rcalls[k].i = rcalls[m].i)

\* C10 witness: the call stack is full in a call of direct_successors(i) where
\* i is not cyclic and a component reachable from it is.
C10_Witness ==
    /\ pc = "overflow"
    /\ ~is_cyclic(arg)
    /\ ReachesCyclic(arg)

====
